---- MODULE Spec2Model ----
(***************************************************************************)
(* Model of vdsm's external lease index, lib/vdsm/storage/xlease.py.       *)
(*                                                                         *)
(* The record table is modelled byte for byte: a record is RECORD_SIZE     *)
(* one-character strings in the storage format                             *)
(*     <resource>:<state>:<timestamp>:<padding>\n                          *)
(* and a buffer is the flat sequence of the table's bytes, so that         *)
(* find_record is the substring search the code performs.                  *)
(*                                                                         *)
(* Geometry: the code has BLOCK_SIZE = 512 (8 records in a block) and      *)
(* MAX_RECORDS = 4000 (500 blocks).  The model keeps RECORD_SIZE and the   *)
(* record format, and scales the table to NBlocks blocks of RecsPerBlock   *)
(* records.  The metadata blocks 0-3 are never searched and never changed  *)
(* by add or remove; only the record table is kept.                        *)
(*                                                                         *)
(* Only({F(v) : v \in {e}}) is used where a value is read many times: it   *)
(* makes TLC compute e once.                                               *)
(***************************************************************************)
EXTENDS Integers, Sequences, FiniteSets, TLC

\* ------------------------------------------------------------- bounds
NBlocks == 2
RecsPerBlock == 2
NumIds == 5
MaxTime == 2

\* ---------------------------------------------------------- constants
RECORD_SIZE == 64
BLOCK_SIZE == RecsPerBlock * RECORD_SIZE
LEASE_SIZE == 2048 * BLOCK_SIZE
LEASE_BASE == LEASE_SIZE
METADATA_SIZE == 4 * BLOCK_SIZE
RECORD_BASE == METADATA_SIZE
MAX_RECORDS == NBlocks * RecsPerBlock
INDEX_SIZE == METADATA_SIZE + (MAX_RECORDS * RECORD_SIZE)

RECORD_USED == "U"
RECORD_FREE == "F"
RECORD_STALE == "S"
RECORD_STATES == [U |-> "USED", F |-> "FREE", S |-> "STALE"]
RECORD_SEP == ":"
RECORD_TERM == "\n"

\* ------------------------------------------------------------ strings
Only(S) == CHOOSE v \in S : TRUE

Rep(c, n) == [i \in 1..n |-> c]

Max(a, b) == IF a >= b THEN a ELSE b

DigitChars == <<"0", "1", "2", "3", "4", "5", "6", "7", "8", "9">>

DigitChar(d) == DigitChars[d + 1]

IsDigit(c) == \E d \in 0..9 : DigitChars[d + 1] = c

DigitValue(c) == CHOOSE d \in 0..9 : DigitChars[d + 1] = c

\* A lease id in UUID layout, 8-4-4-4-12, every hex digit the same character.
Uuid(c) ==
    Rep(c, 8) \o <<"-">> \o Rep(c, 4) \o <<"-">> \o Rep(c, 4) \o <<"-">>
        \o Rep(c, 4) \o <<"-">> \o Rep(c, 12)

BLANK_UUID == Uuid("0")

\* The lease ids callers pass: NumIds distinct UUIDs, none the placeholder.
LeaseIds == {Uuid(DigitChar(i)) : i \in 1..NumIds}

\* int(time.time()) of a call.
Times == 1..MaxTime

RecNums == 0..(MAX_RECORDS - 1)

\* ------------------------------------------------------- Record codec
RECURSIVE NumDigits(_)
NumDigits(n) == IF n < 10 THEN 1 ELSE 1 + NumDigits(n \div 10)

RECURSIVE Pow10(_)
Pow10(k) == IF k = 0 THEN 1 ELSE 10 * Pow10(k - 1)

DecDigits(n, w) == [i \in 1..w |-> DigitChar((n \div Pow10(w - i)) % 10)]

\* b"%010d" % n: at least 10 characters, zero padded, the sign first.
Format010d(n) ==
    IF n >= 0
    THEN DecDigits(n, Max(10, NumDigits(n)))
    ELSE <<"-">> \o DecDigits(-n, Max(9, NumDigits(-n)))

Record(resource, state, modified) ==
    [resource |-> resource, state |-> state, modified |-> modified]

\* Mutant: the padding is made of spaces.
BytesSpacePadded(record) ==
    Only({data \o Rep(" ", Max(RECORD_SIZE - Len(data) - 1, 0)) \o <<RECORD_TERM>> :
            data \in {record.resource \o <<RECORD_SEP>> \o <<record.state>>
                        \o <<RECORD_SEP>> \o Format010d(record.modified)
                        \o <<RECORD_SEP>>}})

\* Record.bytes
bytes(record) ==
    Only({data \o Rep("0", Max(RECORD_SIZE - Len(data) - 1, 0)) \o <<RECORD_TERM>> :
            data \in {record.resource \o <<RECORD_SEP>> \o <<record.state>>
                        \o <<RECORD_SEP>> \o Format010d(record.modified)
                        \o <<RECORD_SEP>>}})

\* The bytes int() skips at both ends of its argument.
Whitespace == {" ", "\t", "\n", "\r", "\f"}

RECURSIVE StripLeft(_)
StripLeft(s) ==
    IF s # << >> /\ s[1] \in Whitespace THEN StripLeft(Tail(s)) ELSE s

RECURSIVE StripRight(_)
StripRight(s) ==
    IF s # << >> /\ s[Len(s)] \in Whitespace
    THEN StripRight(SubSeq(s, 1, Len(s) - 1)) ELSE s

Strip(s) == StripLeft(StripRight(s))

\* int(field) does not raise ValueError: blanks at both ends, an optional
\* sign, then decimal digits only.
IsIntText(s) ==
    \E t \in {Strip(s)} :
       \E body \in {IF t # << >> /\ t[1] \in {"-", "+"} THEN Tail(t) ELSE t} :
          Len(body) >= 1 /\ \A i \in 1..Len(body) : IsDigit(body[i])

RECURSIVE DigitsValue(_, _)
DigitsValue(s, acc) ==
    IF s = << >> THEN acc ELSE DigitsValue(Tail(s), 10 * acc + DigitValue(s[1]))

\* Mutant: the first character is always taken for a sign.
IntOfTextSkipFirst(s) == DigitsValue(Tail(s), 0)

\* int(field) of a field that IsIntText.
IntOfText(s) ==
    Only({IF t[1] = "-" THEN 0 - DigitsValue(Tail(t), 0)
          ELSE IF t[1] = "+" THEN DigitsValue(Tail(t), 0)
          ELSE DigitsValue(t, 0) :
            t \in {Strip(s)}})

NoRecord == [valid |-> FALSE]

\* Mutant: the state byte is not tested.
ParseFieldsAnyState(data, seps) ==
    LET s1 == CHOOSE i \in seps : \A j \in seps : i <= j
        s3 == CHOOSE i \in seps : \A j \in seps : i >= j
        s2 == CHOOSE i \in seps : i # s1 /\ i # s3
    IN  Only({IF ~IsIntText(f[3])
              THEN NoRecord
              ELSE [valid |-> TRUE, resource |-> f[1], state |-> f[2][1],
                    modified |-> IntOfText(f[3])] :
                f \in {<<SubSeq(data, 1, s1 - 1), SubSeq(data, s1 + 1, s2 - 1),
                         SubSeq(data, s2 + 1, s3 - 1)>>}})

\* The fields of 64 bytes that hold the separators seps.
ParseFields(data, seps) ==
    LET s1 == CHOOSE i \in seps : \A j \in seps : i <= j
        s3 == CHOOSE i \in seps : \A j \in seps : i >= j
        s2 == CHOOSE i \in seps : i # s1 /\ i # s3
    IN  Only({IF f[2] \notin {<<RECORD_USED>>, <<RECORD_FREE>>, <<RECORD_STALE>>}
              THEN NoRecord
              ELSE IF ~IsIntText(f[3])
              THEN NoRecord
              ELSE [valid |-> TRUE, resource |-> f[1], state |-> f[2][1],
                    modified |-> IntOfText(f[3])] :
                f \in {<<SubSeq(data, 1, s1 - 1), SubSeq(data, s1 + 1, s2 - 1),
                         SubSeq(data, s2 + 1, s3 - 1)>>}})

\* Record.frombytes: the parsed record, or NoRecord where the code raises
\* InvalidRecord.  record.split(":", 4) unpacks into four fields exactly when
\* the data holds three separators.
frombytes(record) ==
    Only({IF Len(data) # RECORD_SIZE
          THEN NoRecord
          ELSE Only({IF Cardinality(seps) # 3 THEN NoRecord
                     ELSE ParseFields(data, seps) :
                        seps \in {{i \in 1..Len(data) : data[i] = RECORD_SEP}}}) :
            data \in {record}})

\* -------------------------------------------------------- IndexBuffer
\* A buffer b holds the bytes at offsets RECORD_BASE .. INDEX_SIZE - 1 of
\* the mmap.
TableLen == MAX_RECORDS * RECORD_SIZE

\* Mutant: the table begins half a record after RECORD_BASE.
RecordOffsetHalf(recnum) ==
    RECORD_BASE + recnum * RECORD_SIZE + RECORD_SIZE \div 2

_record_offset(recnum) == RECORD_BASE + recnum * RECORD_SIZE

\* Mutant: the record after the one the offset is in.
RecordNumberNext(offset) == (offset - RECORD_BASE) \div RECORD_SIZE + 1

_record_number(offset) == (offset - RECORD_BASE) \div RECORD_SIZE

\* self._buf.find(prefix, RECORD_BASE): the lowest offset at which prefix
\* occurs, -1 if none.
BufFind(b, prefix) ==
    Only({IF hits = {} THEN -1
          ELSE RECORD_BASE - 1 + CHOOSE o \in hits : \A p \in hits : o <= p :
            hits \in {{o \in 1..(Len(b) - Len(prefix) + 1) :
                        \A k \in 1..Len(prefix) : b[o + k - 1] = prefix[k]}}})

find_record(b, lease_id) ==
    Only({IF offset = -1 THEN -1 ELSE _record_number(offset) :
            offset \in {Only({BufFind(b, prefix) :
                                prefix \in {lease_id \o <<RECORD_SEP>>}})}})

read_record(b, recnum) ==
    frombytes(SubSeq(b, _record_offset(recnum) - RECORD_BASE + 1,
                     _record_offset(recnum) - RECORD_BASE + RECORD_SIZE))

\* Mutant: the bytes land at the record's offset and again at the offset of
\* the record after it.
WriteRecordTwice(b, recnum, record) ==
    Only({[i \in 1..Len(x[3]) |->
             IF i >= x[2] /\ i < x[2] + Len(x[1]) THEN x[1][i - x[2] + 1]
             ELSE IF i >= x[4] /\ i < x[4] + Len(x[1]) THEN x[1][i - x[4] + 1]
             ELSE x[3][i]] :
            x \in {<<bytes(record), _record_offset(recnum) - RECORD_BASE + 1, b,
                     _record_offset((recnum + 1) % MAX_RECORDS) - RECORD_BASE + 1>>}})

\* Mutant: the bytes land at the offset of the record after the given one.
WriteRecordShifted(b, recnum, record) ==
    Only({[i \in 1..Len(x[3]) |->
             IF i >= x[2] /\ i < x[2] + Len(x[1]) THEN x[1][i - x[2] + 1] ELSE x[3][i]] :
            x \in {<<bytes(record),
                     _record_offset((recnum + 1) % MAX_RECORDS) - RECORD_BASE + 1, b>>}})

\* mmap seek and write: the bytes land at the record's offset, whatever
\* their number.
write_record(b, recnum, record) ==
    Only({[i \in 1..Len(x[3]) |->
             IF i >= x[2] /\ i < x[2] + Len(x[1]) THEN x[1][i - x[2] + 1] ELSE x[3][i]] :
            x \in {<<bytes(record), _record_offset(recnum) - RECORD_BASE + 1, b>>}})

\* self._buf.write raises ValueError and writes nothing when the bytes do
\* not fit between the record's offset and the end of the mmap.
Overflows(recnum, record) ==
    _record_offset(recnum) + Len(bytes(record)) > INDEX_SIZE

\* Mutant: the write begins at the record.
BlockStartRecord(recnum) == _record_offset(recnum)

block_start(recnum) ==
    LET offset == _record_offset(recnum) IN offset - (offset % BLOCK_SIZE)

\* file.seek(start); file.write(block): the device after BLOCK_SIZE bytes of
\* the buffer were written at offset start.
WriteBlock(dev, b, start) ==
    [i \in 1..Len(dev) |->
        IF i >= start - RECORD_BASE + 1 /\ i < start - RECORD_BASE + 1 + BLOCK_SIZE
        THEN b[i] ELSE dev[i]]

\* Mutant: the offset counted from the start of the volume.
LeaseOffsetNoBase(recnum) == recnum * LEASE_SIZE

\* Mutant: the lease areas follow each other one block apart.
LeaseOffsetPacked(recnum) == LEASE_BASE + (recnum * BLOCK_SIZE)

_lease_offset(recnum) == LEASE_BASE + (recnum * LEASE_SIZE)

\* Mutant: the FREE records are listed too.
LeasesWithFree(b) ==
    Only({IF \E n \in RecNums : ~recs[n].valid
          THEN NoRecord
          ELSE LET last(id) == CHOOSE n \in RecNums :
                                  /\ recs[n].resource = id
                                  /\ \A m \in RecNums : recs[m].resource = id => m <= n
               IN  [valid |-> TRUE,
                    map |-> [id \in {recs[n].resource : n \in RecNums} |->
                                [offset |-> _lease_offset(last(id)),
                                 state |-> RECORD_STATES[recs[last(id)].state],
                                 modified |-> recs[last(id)].modified]]] :
            recs \in {[n \in RecNums |-> read_record(b, n)]}})

\* Index.leases: the lease ids of the records that are not FREE, each with
\* its offset, state name and modification time; in the dict a later record
\* replaces an earlier one of the same id.  The code raises InvalidRecord at
\* the first record that does not parse: NoRecord then.
leases(b) ==
    Only({IF \E n \in RecNums : ~recs[n].valid
          THEN NoRecord
          ELSE LET used == {n \in RecNums : recs[n].state # RECORD_FREE}
                   last(id) == CHOOSE n \in used :
                                  /\ recs[n].resource = id
                                  /\ \A m \in used : recs[m].resource = id => m <= n
               IN  [valid |-> TRUE,
                    map |-> [id \in {recs[n].resource : n \in used} |->
                                [offset |-> _lease_offset(last(id)),
                                 state |-> RECORD_STATES[recs[last(id)].state],
                                 modified |-> recs[last(id)].modified]]] :
            recs \in {[n \in RecNums |-> read_record(b, n)]}})

\* ---------------------------------------------------------------- state
VARIABLES
    storage,    \* the record table on the device, as a read returns it
    durable,    \* the record table on the stable medium, as a crash leaves it
    buf,        \* buf[h]: the IndexBuffer of handle h, << >> when not open
    call,       \* the mutating call in progress, NoCall when none
    ret,        \* what the last call returned or raised, until the caller
                \* takes it; NoRet otherwise
    meta,       \* the metadata blocks 0-3, one value for a block: meta.dev on
                \* the device, meta.med on the stable medium, meta.buf[h] in
                \* the buffer of handle h (<< >> when not open)
    live,       \* history: the lease ids whose add returned a LeaseInfo and
                \* that no remove or format that returned has taken since
    closed,     \* the handles whose Index was closed with Index.close
    size,       \* the length of the backing file, in bytes
    rd,         \* the DirectFile.readinto loop of the Index under
                \* construction, NoRead when none; rd.py2 is PY2, the
                \* Python the process runs
    codec       \* the record a caller of the Record codec is working on

vars == <<storage, durable, buf, call, ret, meta, live, closed, size, rd, codec>>

\* What no call on an open Index touches.
other == <<size, rd, codec>>

\* Handle 1 is the index of the writer (the SPM); handle 2 is an index that
\* another process opens.
Handles == {1, 2}

NoCall ==
    [h |-> 0, op |-> "none", id |-> << >>, recnum |-> -1, modified |-> -1,
     step |-> "none", todo |-> << >>, before |-> << >>, io |-> << >>]

\* A request to the file: file.seek(offset) and file.readinto or file.write
\* of length bytes, or os.fsync of the file.
Request(op, offset, length) == [op |-> op, offset |-> offset, length |-> length]

SyncRequest == Request("sync", 0, 0)

\* IndexBuffer.__init__: file.seek(0), then file.readinto of the whole mmap.
LoadRequest == Request("read", 0, INDEX_SIZE)

NoRet ==
    [h |-> 0, op |-> "none", id |-> << >>, res |-> "none", recnum |-> -1,
     offset |-> -1, modified |-> -1, map |-> << >>]

NoRead == [h |-> 0, pos |-> -1, pc |-> "none", py2 |-> FALSE]

NoCodec == [pc |-> "none", rec |-> NoRecord, data |-> << >>, out |-> NoRecord]

IsOpen(h) == buf[h] # << >>

\* The number of metadata blocks at the start of the file.
MetaBlocks == METADATA_SIZE \div BLOCK_SIZE

\* The offsets of the blocks of the buffer, ascending: the metadata blocks,
\* then the blocks of the record table.
\* Mutant: the record table only.
AllBlocksNoMeta == [i \in 1..NBlocks |-> RECORD_BASE + (i - 1) * BLOCK_SIZE]

AllBlocks == [i \in 1..(MetaBlocks + NBlocks) |-> (i - 1) * BLOCK_SIZE]

\* Mutant: the loop stops one record short.
RECURSIVE FormatBufShort(_, _, _)
FormatBufShort(b, n, t) ==
    IF n >= MAX_RECORDS - 1 THEN b
    ELSE FormatBufShort(write_record(b, n, Record(BLANK_UUID, RECORD_FREE, t)),
                        n + 1, t)

\* The table after Index.format's loop: every record FREE at time t.
RECURSIVE FormatBuf(_, _, _)
FormatBuf(b, n, t) ==
    IF n = MAX_RECORDS THEN b
    ELSE FormatBuf(write_record(b, n, Record(BLANK_UUID, RECORD_FREE, t)), n + 1, t)

\* What a call hands to its caller: a LeaseInfo (res "ok": offset and
\* modified) or the exception raised (res its name, modified what it
\* carries).
Returned(h, op, id, res, recnum, modified) ==
    [h |-> h, op |-> op, id |-> id, res |-> res, recnum |-> recnum,
     offset |-> IF res = "ok" /\ recnum # -1 THEN _lease_offset(recnum) ELSE -1,
     modified |-> modified, map |-> << >>]

\* The metadata blocks of a volume on which nothing wrote metadata yet.
BlankMeta == [i \in 1..MetaBlocks |-> "a"]

\* A volume formatted before any handle of the model was opened.
Init ==
    /\ storage = FormatBuf([i \in 1..TableLen |-> "0"], 0, 0)
    /\ durable = storage
    /\ buf = [h \in Handles |-> << >>]
    /\ call = NoCall
    /\ ret = NoRet
    /\ meta = [dev |-> BlankMeta, med |-> BlankMeta,
               buf |-> [h \in Handles |-> << >>]]
    /\ live = {}
    /\ closed = {}
    /\ size = INDEX_SIZE
    /\ rd = NoRead
    /\ codec = NoCodec

\* ---------------------------------------------------------------- Index
\* The buffer of handle h after file.readinto has filled it.
Load(h) ==
    /\ buf' = [buf EXCEPT ![h] = storage]
    /\ meta' = [meta EXCEPT !.buf[h] = meta.dev]
    /\ closed' = closed \ {h}

\* Index.__init__ and IndexBuffer.__init__ on a file that holds the whole
\* region: the region is read once, by one read.
Open(h) ==
    /\ ~IsOpen(h)
    /\ ret = NoRet
    /\ rd = NoRead
    /\ size >= LoadRequest.offset + LoadRequest.length
    /\ Load(h)
    /\ UNCHANGED <<storage, durable, call, ret, live, other>>

\* Index.close
Close(h) ==
    /\ IsOpen(h)
    /\ call = NoCall
    /\ ret = NoRet
    /\ buf' = [buf EXCEPT ![h] = << >>]
    /\ meta' = [meta EXCEPT !.buf[h] = << >>]
    /\ closed' = closed \cup {h}
    /\ UNCHANGED <<storage, durable, call, ret, live, other>>

\* The caller takes the result of its call.
Return ==
    /\ ret # NoRet
    /\ ret' = NoRet
    /\ UNCHANGED <<storage, durable, buf, call, meta, live, closed, other>>

\* Mutant: a STALE record is looked up like a USED one.
LookupFoundNoStale(h, lease_id, recnum, record) ==
    IF ~record.valid
    THEN Returned(h, "lookup", lease_id, "InvalidRecord", recnum, -1)
    ELSE Returned(h, "lookup", lease_id, "ok", recnum, record.modified)

\* What Index.lookup returns or raises on a buffer.
LookupFound(h, lease_id, recnum, record) ==
    IF ~record.valid
    THEN Returned(h, "lookup", lease_id, "InvalidRecord", recnum, -1)
    ELSE IF record.state = RECORD_STALE
    THEN Returned(h, "lookup", lease_id, "StaleLease", recnum, record.modified)
    ELSE Returned(h, "lookup", lease_id, "ok", recnum, record.modified)

LookupResult(h, b, lease_id) ==
    Only({IF recnum = -1
          THEN Returned(h, "lookup", lease_id, "NoSuchLease", -1, -1)
          ELSE Only({LookupFound(h, lease_id, recnum, record) :
                        record \in {read_record(b, recnum)}}) :
            recnum \in {find_record(b, lease_id)}})

\* Mutant: lookup reads the device.
LookupSourceDevice(h) == storage

\* The bytes Index.lookup searches: the buffer of the handle.
LookupSource(h) == buf[h]

\* Index.lookup
Lookup(h, lease_id) ==
    /\ IsOpen(h)
    /\ call.h # h
    /\ ret = NoRet
    /\ ret' = LookupResult(h, LookupSource(h), lease_id)
    /\ UNCHANGED <<storage, durable, buf, call, meta, live, closed, other>>

\* What Index.leases returns or raises for handle h: the dict, or
\* InvalidRecord.
LeasesReturned(h, l) ==
    [h |-> h, op |-> "leases", id |-> << >>,
     res |-> IF l.valid THEN "ok" ELSE "InvalidRecord",
     recnum |-> -1, offset |-> -1, modified |-> -1,
     map |-> IF l.valid THEN l.map ELSE << >>]

\* Index.leases
Leases(h) ==
    /\ IsOpen(h)
    /\ call.h # h
    /\ ret = NoRet
    /\ ret' = LeasesReturned(h, leases(buf[h]))
    /\ UNCHANGED <<storage, durable, buf, call, meta, live, closed, other>>

\* Mutant: the call raises after it wrote a record for its id.
RaisedAfterWrite(h, r) ==
    /\ ret' = r
    /\ buf' = [buf EXCEPT ![h] = write_record(buf[h], 0,
                                              Record(r.id, RECORD_USED, 0))]
    /\ UNCHANGED call

\* add or remove raises r before write_record and dump_record: the buffer
\* is as it was and no request goes to the file.
Raised(h, r) ==
    /\ ret' = r
    /\ UNCHANGED <<buf, call>>

\* Mutant: LeaseExists is raised with the record number in place of the
\* modification time.
AddFoundWrongField(h, lease_id, recnum, record) ==
    IF ~record.valid
    THEN Returned(h, "add", lease_id, "InvalidRecord", recnum, -1)
    ELSE IF record.state = RECORD_STALE
    THEN Returned(h, "add", lease_id, "StaleLease", recnum, record.modified)
    ELSE Returned(h, "add", lease_id, "LeaseExists", recnum, recnum)

\* The exception Index.add raises when find_record finds the lease id.
AddFound(h, lease_id, recnum, record) ==
    IF ~record.valid
    THEN Returned(h, "add", lease_id, "InvalidRecord", recnum, -1)
    ELSE IF record.state = RECORD_STALE
    THEN Returned(h, "add", lease_id, "StaleLease", recnum, record.modified)
    ELSE Returned(h, "add", lease_id, "LeaseExists", recnum, record.modified)

\* The call frame of a mutating call that wrote its record in memory and
\* has handed the listed blocks, which follow each other, to file.write in
\* one request; io lists the requests the call has made to the file so far.
Frame(h, op, id, recnum, modified, blocks) ==
    [h |-> h, op |-> op, id |-> id, recnum |-> recnum, modified |-> modified,
     step |-> "write", todo |-> blocks, before |-> storage,
     io |-> <<Request("write", Head(blocks), Len(blocks) * BLOCK_SIZE)>>]

\* Mutant: the whole buffer is written, as dump does.
DumpRecordWhole(recnum) == AllBlocks

\* The blocks dump_record hands to file.write: the block of the record.
DumpRecordBlocks(recnum) == <<block_start(recnum)>>

\* Mutant: the highest FREE record is taken.
FreeSlotLast(b) ==
    LET free == {n \in RecNums : read_record(b, n).valid
                                   /\ read_record(b, n).state = RECORD_FREE}
    IN  IF free = {} THEN -1 ELSE CHOOSE n \in free : \A m \in free : m <= n

\* Mutant: when no record is FREE the first record is taken.
FreeSlotOrFirst(b) ==
    IF find_record(b, BLANK_UUID) = -1 THEN 0 ELSE find_record(b, BLANK_UUID)

\* The slot Index.add takes: the record find_record(BLANK_UUID) returns.
FreeSlot(b) == find_record(b, BLANK_UUID)

\* Index.add, up to the file write of dump_record.
Add(h, lease_id, t) ==
    /\ IsOpen(h)
    /\ call = NoCall
    /\ ret = NoRet
    /\ \E found \in {find_record(buf[h], lease_id)} :
          IF found # -1
          THEN Raised(h, AddFound(h, lease_id, found, read_record(buf[h], found)))
          ELSE \E recnum \in {FreeSlot(buf[h])} :
                  IF recnum = -1
                  THEN Raised(h, Returned(h, "add", lease_id, "NoSpace", -1, -1))
                  ELSE IF Overflows(recnum, Record(lease_id, RECORD_USED, t))
                  THEN Raised(h, Returned(h, "add", lease_id, "ValueError",
                                          recnum, -1))
                  ELSE /\ buf' = [buf EXCEPT ![h] = write_record(
                                    buf[h], recnum, Record(lease_id, RECORD_USED, t))]
                       /\ call' = Frame(h, "add", lease_id, recnum, t,
                                        DumpRecordBlocks(recnum))
                       /\ UNCHANGED ret
    /\ UNCHANGED <<storage, durable, meta, live, closed, other>>

\* Mutant: remove leaves the record STALE.
RemovedRecordStale(t) == Record(BLANK_UUID, RECORD_STALE, t)

\* The record Index.remove writes over the one it found.
RemovedRecord(t) == Record(BLANK_UUID, RECORD_FREE, t)

\* Index.remove, up to the file write of dump_record.
Remove(h, lease_id, t) ==
    /\ IsOpen(h)
    /\ call = NoCall
    /\ ret = NoRet
    /\ \E recnum \in {find_record(buf[h], lease_id)} :
          IF recnum = -1
          THEN Raised(h, Returned(h, "remove", lease_id, "NoSuchLease", -1, -1))
          ELSE /\ buf' = [buf EXCEPT ![h] =
                             write_record(buf[h], recnum, RemovedRecord(t))]
               /\ call' = Frame(h, "remove", lease_id, recnum, t,
                                DumpRecordBlocks(recnum))
               /\ UNCHANGED ret
    /\ UNCHANGED <<storage, durable, meta, live, closed, other>>

\* Index.format, up to the file write of dump, which writes the whole
\* buffer from offset 0: the metadata blocks as the handle read them, then
\* the record table.
Format(h, t) ==
    /\ IsOpen(h)
    /\ call = NoCall
    /\ ret = NoRet
    /\ buf' = [buf EXCEPT ![h] = FormatBuf(buf[h], 0, t)]
    /\ call' = Frame(h, "format", BLANK_UUID, -1, t, AllBlocks)
    /\ UNCHANGED <<storage, durable, ret, meta, live, closed, other>>

\* Mutant: every call on a closed Index is refused but format.
ClosedResultFormat(h, op, id) ==
    Returned(h, op, id, IF op = "format" THEN "ok" ELSE "ValueError", -1, -1)

\* What a call on a closed Index raises: the mmap of its buffer is closed,
\* and the first thing every call does is search, seek or read it.
ClosedResult(h, op, id) == Returned(h, op, id, "ValueError", -1, -1)

\* lookup, add, remove, format or leases on an Index after Index.close.
CallClosed(h, op, id) ==
    /\ h \in closed
    /\ call = NoCall
    /\ ret = NoRet
    /\ ret' = ClosedResult(h, op, id)
    /\ UNCHANGED <<storage, durable, buf, call, meta, live, closed, other>>

\* ------------------------------------------------------------ file I/O
\* The device after the block of the buffer of handle h at offset start was
\* written: a metadata block, or a block of the record table.
Written(h, start) ==
    IF start < RECORD_BASE
    THEN <<storage,
           [meta EXCEPT !.dev[(start \div BLOCK_SIZE) + 1] =
                            meta.buf[h][(start \div BLOCK_SIZE) + 1]]>>
    ELSE <<WriteBlock(storage, buf[h], start), meta>>

\* DirectFile.write: one block reaches the device.  dump_record writes one
\* block; dump writes the whole buffer, which the device takes block by
\* block, in order.
WriteOk ==
    /\ call.step = "write"
    /\ \E w \in {Written(call.h, Head(call.todo))} :
          storage' = w[1] /\ meta' = w[2]
    /\ call' = IF Len(call.todo) = 1
               THEN [call EXCEPT !.step = "sync", !.todo = << >>,
                                 !.io = Append(@, SyncRequest)]
               ELSE [call EXCEPT !.todo = Tail(@)]
    /\ UNCHANGED <<durable, buf, ret, live, closed, other>>

\* The write raises OSError; the block it was writing may have reached the
\* device or not.
WriteFail ==
    /\ call.step = "write"
    /\ \E written \in BOOLEAN :
          \E w \in {IF written THEN Written(call.h, Head(call.todo))
                    ELSE <<storage, meta>>} :
             storage' = w[1] /\ meta' = w[2]
    /\ ret' = Returned(call.h, call.op, call.id, "OSError", call.recnum, -1)
    /\ call' = NoCall
    /\ UNCHANGED <<durable, buf, live, closed, other>>

\* Mutant: the call returns without the sync.
NotSynced(dev, med) == med

\* What is on the stable medium when os.fsync has returned: all that was
\* written to the device.
Synced(dev, med) == dev

\* The leases the callers hold once a call has returned without error.
LiveAfter(op, id) ==
    IF op = "add" THEN live \cup {id}
    ELSE IF op = "remove" THEN live \ {id}
    ELSE {}

\* os.fsync returns, and then the call.
SyncOk ==
    /\ call.step = "sync"
    /\ durable' = Synced(storage, durable)
    /\ meta' = [meta EXCEPT !.med = Synced(meta.dev, meta.med)]
    /\ ret' = Returned(call.h, call.op, call.id, "ok", call.recnum, call.modified)
    /\ live' = LiveAfter(call.op, call.id)
    /\ call' = NoCall
    /\ UNCHANGED <<storage, buf, closed, other>>

\* os.fsync raises OSError: what reached the medium is not known.
SyncFail ==
    /\ call.step = "sync"
    /\ \E done \in BOOLEAN :
          /\ durable' = IF done THEN storage ELSE durable
          /\ meta' = [meta EXCEPT !.med = IF done THEN meta.dev ELSE meta.med]
    /\ ret' = Returned(call.h, call.op, call.id, "OSError", call.recnum, -1)
    /\ call' = NoCall
    /\ UNCHANGED <<storage, buf, live, closed, other>>

\* --------------------------------------------------- DirectFile.readinto
\* IndexBuffer.__init__ on a file of any length: file.seek(0), then
\* DirectFile.readinto, whose loop is kept step by step, in a process of
\* Python 2 or of Python 3.
OpenStart(h) ==
    /\ ~IsOpen(h)
    /\ call = NoCall
    /\ ret = NoRet
    /\ rd = NoRead
    /\ \E py2 \in BOOLEAN :
          rd' = [h |-> h, pos |-> LoadRequest.offset, pc |-> "test",
                 py2 |-> py2]
    /\ closed' = closed \ {h}
    /\ UNCHANGED <<storage, durable, buf, call, ret, meta, live, size, codec>>

\* while pos < len(buf): the loop goes on to the next read, or ends, and
\* IndexBuffer.__init__ returns with the buffer filled.
LoopTest ==
    /\ rd.pc = "test"
    /\ IF rd.pos < LoadRequest.length
       THEN /\ rd' = [rd EXCEPT !.pc = "read"]
            /\ UNCHANGED <<buf, meta, closed>>
       ELSE /\ rd' = NoRead
            /\ Load(rd.h)
    /\ UNCHANGED <<storage, durable, call, ret, live, size, codec>>

\* The length of rbuf, which the read is asked to fill: in Python 2 the
\* temporary mmap, as long as the whole buffer on every turn of the loop;
\* in Python 3 the rest of the buffer, memoryview(buf)[pos:].
ReadLength(pos) ==
    IF rd.py2 THEN LoadRequest.length ELSE LoadRequest.length - pos

\* The numbers of bytes a read at offset pos can return: 0 at the end of the
\* file; otherwise one block, or all that is left of the file and of rbuf.
ReadCounts(pos) ==
    IF pos >= size THEN {0}
    ELSE {BLOCK_SIZE,
          IF size - pos < ReadLength(pos) THEN size - pos ELSE ReadLength(pos)}

\* pos += self._file.readinto(rbuf).  In Python 2 the bytes read are copied
\* with buf.write(rbuf[:nread]), which raises ValueError when they do not
\* fit in what is left of the buffer; IndexBuffer.__init__ then closes the
\* mmap and raises.
ReadStep ==
    /\ rd.pc = "read"
    /\ \E nread \in ReadCounts(rd.pos) :
          IF rd.py2 /\ rd.pos + nread > LoadRequest.length
          THEN /\ ret = NoRet
               /\ ret' = Returned(rd.h, "open", << >>, "ValueError", -1, -1)
               /\ rd' = NoRead
          ELSE /\ rd' = [rd EXCEPT !.pos = @ + nread, !.pc = "test"]
               /\ UNCHANGED ret
    /\ UNCHANGED <<storage, durable, buf, call, meta, live, closed, size, codec>>

\* The read raises OSError: IndexBuffer.__init__ closes the mmap and raises.
ReadFail ==
    /\ rd.pc = "read"
    /\ ret = NoRet
    /\ ret' = Returned(rd.h, "open", << >>, "OSError", -1, -1)
    /\ rd' = NoRead
    /\ UNCHANGED <<storage, durable, buf, call, meta, live, closed, size, codec>>

\* ---------------------------------------------------------- Record codec
\* Record.bytes of the caller's record.
Encode ==
    /\ codec.pc = "new"
    /\ codec' = [codec EXCEPT !.pc = "encoded", !.data = bytes(codec.rec)]
    /\ UNCHANGED <<storage, durable, buf, call, ret, meta, live, closed, size, rd>>

\* Record.frombytes of the bytes Record.bytes returned.
Decode ==
    /\ codec.pc = "encoded"
    /\ codec' = [codec EXCEPT !.pc = "decoded", !.out = frombytes(codec.data)]
    /\ UNCHANGED <<storage, durable, buf, call, ret, meta, live, closed, size, rd>>

\* ---------------------------------------------------------- environment
\* The tables a crash can leave: each block as last synced, or as last
\* written.
CrashOutcomes(dev, med) ==
    {[i \in 1..Len(dev) |->
        IF (i - 1) \div BLOCK_SIZE \in S THEN dev[i] ELSE med[i]] :
        S \in SUBSET (0..(NBlocks - 1))}

\* The metadata blocks a crash can leave.
MetaCrashOutcomes(dev, med) ==
    {[i \in 1..MetaBlocks |-> IF i \in S THEN dev[i] ELSE med[i]] :
        S \in SUBSET {i \in 1..MetaBlocks : dev[i] # med[i]}}

\* The hosts and the device lose power: every process is gone.
Crash ==
    /\ ret = NoRet
    /\ \E h \in Handles : IsOpen(h)
    /\ storage' \in CrashOutcomes(storage, durable)
    /\ durable' = storage'
    /\ \E m \in MetaCrashOutcomes(meta.dev, meta.med) :
          meta' = [dev |-> m, med |-> m, buf |-> [h \in Handles |-> << >>]]
    /\ buf' = [h \in Handles |-> << >>]
    /\ call' = NoCall
    /\ closed' = {}
    /\ UNCHANGED <<ret, live, other>>

\* A USED record is marked STALE on storage by hand, while no index is open
\* (RECORD_STALE: "the record should be rebuilt from storage"); its id and
\* time are kept.
ForceStale(n) ==
    /\ call = NoCall
    /\ ret = NoRet
    /\ \A h \in Handles : ~IsOpen(h)
    /\ storage = durable
    /\ \E record \in {read_record(storage, n)} :
          /\ record.valid
          /\ record.state = RECORD_USED
          /\ storage' = write_record(storage, n,
                           Record(record.resource, RECORD_STALE, record.modified))
    /\ durable' = storage'
    /\ UNCHANGED <<buf, call, ret, meta, live, closed, other>>

\* The bytes of a record with its state byte overwritten: frombytes raises
\* InvalidRecord("invalid state") on them.
Damaged(data) ==
    [i \in 1..Len(data) |-> IF i = Len(BLANK_UUID) + 2 THEN "X" ELSE data[i]]

\* Record n is damaged on storage while no index is open.
Corrupt(n) ==
    /\ call = NoCall
    /\ ret = NoRet
    /\ \A h \in Handles : ~IsOpen(h)
    /\ storage = durable
    /\ read_record(storage, n).valid
    /\ storage' = [i \in 1..Len(storage) |->
                     IF i > n * RECORD_SIZE /\ i <= (n + 1) * RECORD_SIZE
                     THEN Damaged(SubSeq(storage, n * RECORD_SIZE + 1,
                                         (n + 1) * RECORD_SIZE))[i - n * RECORD_SIZE]
                     ELSE storage[i]]
    /\ durable' = storage'
    /\ UNCHANGED <<buf, call, ret, meta, live, closed, other>>

\* Another program writes metadata block i of the volume (the Index writes
\* no metadata of its own: "TODO: write metadata").
SetMeta(i) ==
    /\ call = NoCall
    /\ ret = NoRet
    /\ meta.dev = meta.med
    /\ meta.dev[i] = "a"
    /\ meta' = [meta EXCEPT !.dev[i] = "b", !.med[i] = "b"]
    /\ UNCHANGED <<storage, durable, buf, call, ret, live, closed, other>>

\* ------------------------------------------------------- specifications
\* The ids the calls of Spec are given: three lease ids and the placeholder.
SpecIds == {Uuid("1"), Uuid("2"), Uuid("3"), BLANK_UUID}

\* One index, every call, no I/O error and no crash.  add is called at the
\* first and at the last clock value; remove and format, whose FREE records
\* carry a time that only a call with the placeholder id reads, at the first.
Next ==
    \/ Open(1)
    \/ Close(1)
    \/ Return
    \/ \E x \in SpecIds : Lookup(1, x)
    \/ \E x \in SpecIds, t \in {1, MaxTime} : Add(1, x, t)
    \/ \E x \in SpecIds : Remove(1, x, 1)
    \/ Format(1, 1)
    \/ WriteOk
    \/ SyncOk
    \/ \E n \in RecNums : ForceStale(n)

Spec == Init /\ [][Next]_vars

\* A freshly formatted index is filled: format and add only, every lease id,
\* one clock value.
NextFill ==
    \/ Open(1)
    \/ Return
    \/ Format(1, 1)
    \/ \E x \in LeaseIds : Add(1, x, 1)
    \/ WriteOk
    \/ SyncOk

SpecFill == Init /\ [][NextFill]_vars

\* The ids the calls of SpecIO are given.
IOIds == {Uuid("1"), Uuid("2")}

\* The writer's index with I/O errors and crashes.
NextIO ==
    \/ Open(1)
    \/ Close(1)
    \/ Return
    \/ \E x \in IOIds : Lookup(1, x)
    \/ \E x \in IOIds : Add(1, x, 1)
    \/ \E x \in IOIds : Remove(1, x, 1)
    \/ WriteOk
    \/ WriteFail
    \/ SyncOk
    \/ SyncFail
    \/ Crash

SpecIO == Init /\ [][NextIO]_vars

\* The id the calls of SpecShared are given.
SharedIds == {Uuid("1")}

\* The writer's index, with I/O errors and crashes, and a second index that
\* another process opens, reads and closes at any time.  Only handle 1 adds
\* and removes (the single-writer rule).
NextShared ==
    \/ \E h \in Handles : Open(h)
    \/ \E h \in Handles : Close(h)
    \/ Return
    \/ \E x \in SharedIds : Lookup(2, x)
    \/ \E x \in SharedIds : Add(1, x, 1)
    \/ \E x \in SharedIds : Remove(1, x, 1)
    \/ WriteOk
    \/ WriteFail
    \/ SyncOk
    \/ SyncFail
    \/ Crash

SpecShared == Init /\ [][NextShared]_vars

\* ------------------------------------------------------- claim helpers
\* The step is handle h calling add(x): it raises at once, or goes on to the
\* file write.
AddCalled(h, x) ==
    /\ call = NoCall
    /\ ret = NoRet
    /\ \/ ret'.op = "add" /\ ret'.h = h /\ ret'.id = x
       \/ call'.op = "add" /\ call'.h = h /\ call'.id = x

RemoveCalled(h, x) ==
    /\ call = NoCall
    /\ ret = NoRet
    /\ \/ ret'.op = "remove" /\ ret'.h = h /\ ret'.id = x
       \/ call'.op = "remove" /\ call'.h = h /\ call'.id = x

LookupCalled(h, x) ==
    ret = NoRet /\ ret'.op = "lookup" /\ ret'.h = h /\ ret'.id = x

\* The numbers of the records of b whose lease id is x.
RecordsOf(b, x) ==
    {n \in RecNums : read_record(b, n).valid /\ read_record(b, n).resource = x}

\* The 64 bytes of record n.
RecordBytes(b, n) == SubSeq(b, n * RECORD_SIZE + 1, (n + 1) * RECORD_SIZE)

\* ----------------------------------------------------------------- C1
\* C1: when format has returned, leases() is the empty mapping; after it, an
\* add of a lease id that no record holds succeeds as long as a record is
\* left, so MAX_RECORDS adds of distinct ids succeed, and add raises NoSpace
\* only when MAX_RECORDS distinct ids were added.
C1_FreshIndex ==
    /\ (ret.op = "format" /\ ret.res = "ok")
          => \E l \in {leases(buf[1])} : l.valid /\ DOMAIN l.map = {}
    /\ ret.op = "add"
          => \/ ret.res = "ok"
             \/ ret.res = "LeaseExists" /\ RecordsOf(buf[1], ret.id) # {}
             \/ /\ ret.res = "NoSpace"
                /\ \A n \in RecNums : read_record(buf[1], n).state = RECORD_USED
                /\ Cardinality({read_record(buf[1], n).resource : n \in RecNums})
                      = MAX_RECORDS
                /\ RecordsOf(buf[1], ret.id) = {}

C1_Witness ==
    /\ ret.op = "add"
    /\ ret.res = "NoSpace"
    /\ Cardinality(DOMAIN leases(buf[1]).map) = MAX_RECORDS

\* ----------------------------------------------------------------- C2
\* C2: when add(x) has returned a LeaseInfo after writing record n, the
\* record n is USED x in the buffer and on storage, the offset returned is
\* LEASE_BASE + n * LEASE_SIZE, and lookup(x) on the same handle now returns
\* the same offset and the same modified time.
C2_AddThenLookup ==
    (ret.op = "add" /\ ret.res = "ok") =>
        /\ ret.recnum \in RecNums
        /\ read_record(buf[ret.h], ret.recnum)
              = [valid |-> TRUE, resource |-> ret.id, state |-> RECORD_USED,
                 modified |-> ret.modified]
        /\ RecordBytes(storage, ret.recnum) = RecordBytes(buf[ret.h], ret.recnum)
        /\ ret.offset = LEASE_BASE + ret.recnum * LEASE_SIZE
        /\ \E r \in {LookupResult(ret.h, buf[ret.h], ret.id)} :
              /\ r.res = "ok"
              /\ r.offset = ret.offset
              /\ r.modified = ret.modified

C2_Witness ==
    ret.op = "add" /\ ret.res = "ok" /\ ret.recnum = 2 /\ ret.modified = 2

\* ----------------------------------------------------------------- C3
\* C3: add(x) on a buffer that holds a USED record of x raises LeaseExists
\* with the modification time stored in that record, and changes neither the
\* buffer nor storage: the record stays as it was and no other record gets x.
C3_AddExisting ==
    [][\A x \in LeaseIds :
          (/\ AddCalled(1, x)
           /\ \E n \in RecordsOf(buf[1], x) :
                 read_record(buf[1], n).state = RECORD_USED)
          => \E n \in RecordsOf(buf[1], x) :
                /\ ret'.res = "LeaseExists"
                /\ ret'.recnum = n
                /\ ret'.modified = read_record(buf[1], n).modified
                /\ UNCHANGED <<buf, storage, durable, call>>]_vars

\* add(x) raised LeaseExists for a record written at another time than the
\* latest one handed out.
C3_Witness ==
    /\ ret.op = "add"
    /\ ret.res = "LeaseExists"
    /\ ret.id \in LeaseIds
    /\ ret.modified = 1
    /\ \E n \in RecNums : read_record(buf[1], n).valid
                            /\ read_record(buf[1], n).modified = 2

\* ----------------------------------------------------------------- C4
\* C4: remove(x) raises NoSuchLease when no record of the buffer has lease
\* id x; when one has, remove(x) frees it, and when it has returned, lookup(x)
\* on the same handle raises NoSuchLease.
C4_Remove ==
    [][\A x \in LeaseIds :
          /\ (RemoveCalled(1, x) /\ RecordsOf(buf[1], x) = {})
                => (ret'.res = "NoSuchLease" /\ UNCHANGED <<buf, storage, call>>)
          /\ (RemoveCalled(1, x) /\ RecordsOf(buf[1], x) # {})
                => (/\ call'.op = "remove"
                    /\ call'.recnum \in RecordsOf(buf[1], x)
                    /\ read_record(buf'[1], call'.recnum).state = RECORD_FREE)
          /\ (call.op = "remove" /\ call.id = x /\ ret' # NoRet)
                => (/\ ret'.res = "ok"
                    /\ LookupResult(1, buf'[1], x).res = "NoSuchLease")]_vars

C4_Witness ==
    /\ ret.op = "remove"
    /\ ret.res = "ok"
    /\ ret.id \in LeaseIds
    /\ ret.recnum = 1

\* ----------------------------------------------------------------- C5
\* C5: when the record of x in the buffer is STALE, lookup(x) and add(x)
\* both raise StaleLease with that record's modification time, and neither
\* changes the buffer or storage (no slot is taken, the record stays).
C5_Stale ==
    [][\A x \in LeaseIds :
          (/\ LookupCalled(1, x) \/ AddCalled(1, x)
           /\ \E n \in RecordsOf(buf[1], x) :
                 read_record(buf[1], n).state = RECORD_STALE)
          => \E n \in RecordsOf(buf[1], x) :
                /\ ret'.res = "StaleLease"
                /\ ret'.recnum = n
                /\ ret'.offset = -1
                /\ ret'.modified = read_record(buf[1], n).modified
                /\ UNCHANGED <<buf, storage, durable, call>>]_vars

C5_WitnessLookup == ret.op = "lookup" /\ ret.res = "StaleLease" /\ ret.modified = 2

\* ----------------------------------------------------------------- C6
\* C6: a record that is STALE on storage stays STALE, with the same bytes,
\* through every step of lookup, add and remove; only format may reset it.
C6_StaleKept ==
    [][\A n \in RecNums :
          (/\ read_record(storage, n).valid
           /\ read_record(storage, n).state = RECORD_STALE
           /\ call.op # "format")
          => RecordBytes(storage', n) = RecordBytes(storage, n)]_vars

\* ----------------------------------------------------------------- C7
\* C7: when add writes record n, every record below n was not FREE in the
\* buffer just before the call: the slot taken is the lowest FREE one.
C7_LowestFree ==
    [][(call = NoCall /\ call'.op = "add")
          => \A m \in 0..(call'.recnum - 1) :
                read_record(buf[call'.h], m).state # RECORD_FREE]_vars

\* add took slot 0, which remove had freed, while a higher slot was FREE too.
C7_Witness ==
    /\ ret.op = "add"
    /\ ret.res = "ok"
    /\ ret.recnum = 0
    /\ read_record(buf[1], 1).state = RECORD_USED
    /\ read_record(buf[1], 2).state = RECORD_FREE

C9_NoPartialSuccess ==
    [][(call.op \in {"add", "remove"} /\ ret'.res = "OSError")
          => storage' = call.before]_vars

\* ---------------------------------------------------------------- C10
\* C10: an index that another process opens while add or remove is in
\* progress, its sync not yet returned, loads the record of the call as it
\* was before the call.
C10_ReaderAfterCommit ==
    [][(call.op \in {"add", "remove"} /\ buf[2] = << >> /\ buf'[2] # << >>)
          => RecordBytes(buf'[2], call.recnum)
                = RecordBytes(call.before, call.recnum)]_vars

\* ---------------------------------------------------------------- C11
\* The ids the calls of SpecCrash are given: enough to fill the first block
\* and reach the second.
CrashIds == {Uuid(DigitChar(i)) : i \in 1..(RecsPerBlock + 1)}

\* The writer's index with I/O errors and crashes, filled by add (remove
\* under the same errors and crashes is in SpecIO).
NextCrash ==
    \/ Open(1)
    \/ Return
    \/ \E x \in CrashIds : Add(1, x, 1)
    \/ WriteOk
    \/ WriteFail
    \/ SyncOk
    \/ SyncFail
    \/ Crash

SpecCrash == Init /\ [][NextCrash]_vars

\* The step is a crash while add or remove is in progress.
CrashInCall ==
    call.op \in {"add", "remove"} /\ call' = NoCall /\ ret' = NoRet

\* The records outside the block of record n.
OutsideBlock(n) == {m \in RecNums : block_start(m) # block_start(n)}

\* C11: when the system crashes inside add or remove, every record outside
\* the block of the call's record is on storage, byte for byte, what it was
\* when the call began, and the call's record is what it was then or what
\* the call wrote in the buffer.
C11_CrashOneBlock ==
    [][CrashInCall =>
          /\ \A m \in OutsideBlock(call.recnum) :
                RecordBytes(storage', m) = RecordBytes(call.before, m)
          /\ RecordBytes(storage', call.recnum)
                \in {RecordBytes(call.before, call.recnum),
                     RecordBytes(buf[call.h], call.recnum)}]_vars

\* ---------------------------------------------------------------- C12
\* The ids the calls of SpecHandoff are given.
HandoffIds == {Uuid("1"), Uuid("2")}

\* Two open indexes that add and remove in turn, never at the same time (a
\* mutating call starts only when none is in progress); no I/O error, no
\* crash.
NextHandoff ==
    \/ \E h \in Handles : Open(h)
    \/ \E h \in Handles : Close(h)
    \/ Return
    \/ \E h \in Handles, x \in HandoffIds : Add(h, x, 1)
    \/ \E h \in Handles, x \in HandoffIds : Remove(h, x, 1)
    \/ WriteOk
    \/ SyncOk

SpecHandoff == Init /\ [][NextHandoff]_vars

\* C12: when add or remove returns without error, every lease that was
\* added and not removed (another id than the call's) and was USED in record
\* n on storage when the call began is still there, the record unchanged.
C12_NoLostLease ==
    [][(call.op \in {"add", "remove"} /\ ret'.res = "ok") =>
          \A x \in live \ {call.id} :
             \A n \in RecNums :
                (/\ read_record(call.before, n).valid
                 /\ read_record(call.before, n).resource = x
                 /\ read_record(call.before, n).state = RECORD_USED)
                => RecordBytes(storage', n) = RecordBytes(call.before, n)]_vars

\* ---------------------------------------------------------------- C13
\* The ids SpecRefine removes.
RefineRemoveIds == {Uuid("1"), Uuid("2")}

\* The lease ids that are never removed are alike: they are added in
\* ascending order.
RefineTurn(i) ==
    \A j \in 1..(i - 1) : Uuid(DigitChar(j)) \in live \cup RefineRemoveIds

\* One index on a formatted volume: add of every lease id, remove of two; no
\* I/O error, no crash.
NextRefine ==
    \/ Open(1)
    \/ Return
    \/ \E i \in 1..NumIds : RefineTurn(i) /\ Add(1, Uuid(DigitChar(i)), 1)
    \/ \E x \in RefineRemoveIds : Remove(1, x, 1)
    \/ WriteOk
    \/ SyncOk

SpecRefine == Init /\ [][NextRefine]_vars

\* Between two calls, the index agrees with the set of leases held: lookup(x)
\* returns a LeaseInfo exactly for the ids of the set and raises NoSuchLease
\* for the others, and leases() has the ids of the set as keys, all USED.
RefinesLive ==
    (IsOpen(1) /\ call = NoCall) =>
        /\ \A x \in LeaseIds :
              \E r \in {LookupResult(1, buf[1], x)} :
                 /\ r.res = "ok" <=> x \in live
                 /\ r.res = "NoSuchLease" <=> x \notin live
        /\ \E l \in {leases(buf[1])} :
              /\ l.valid
              /\ DOMAIN l.map = live
              /\ \A x \in live : l.map[x].state = "USED"

\* C13: the index refines the set of leases held (RefinesLive), and add(x)
\* raises NoSpace exactly when the set has MAX_RECORDS members and x is not
\* one of them.
C13_RefinesSet ==
    /\ []RefinesLive
    /\ [][\A x \in LeaseIds :
             AddCalled(1, x) =>
                (ret'.res = "NoSpace"
                    <=> (Cardinality(live) = MAX_RECORDS /\ x \notin live))]_vars

\* A lease was removed from a full index and another id took its record.
C13_Witness ==
    /\ ret.op = "add"
    /\ ret.res = "ok"
    /\ ret.recnum = 0
    /\ Cardinality(live) = MAX_RECORDS
    /\ Uuid("1") \notin live

\* ---------------------------------------------------------------- C14
\* The ids the calls of SpecLeases are given.
LeasesIds == {Uuid("1"), Uuid("2")}

\* One index whose records become USED, STALE and FREE, and leases() on it.
NextLeases ==
    \/ Open(1)
    \/ Close(1)
    \/ Return
    \/ Leases(1)
    \/ \E x \in LeasesIds, t \in {1, MaxTime} : Add(1, x, t)
    \/ \E x \in LeasesIds : Remove(1, x, 1)
    \/ WriteOk
    \/ SyncOk
    \/ \E n \in RecNums : ForceStale(n)

SpecLeases == Init /\ [][NextLeases]_vars

\* C14: the mapping leases() returns has an entry for the lease id of every
\* record of the buffer that is not FREE, with the offset of the record, the
\* name of its state and its modification time, and no other entry.
C14_Leases ==
    (ret.op = "leases" /\ ret.res = "ok") =>
        /\ \A n \in RecNums :
              \E record \in {read_record(buf[ret.h], n)} :
                 record.state # RECORD_FREE =>
                    /\ record.resource \in DOMAIN ret.map
                    /\ ret.map[record.resource] =
                          [offset |-> LEASE_BASE + n * LEASE_SIZE,
                           state |-> IF record.state = RECORD_USED
                                     THEN "USED" ELSE "STALE",
                           modified |-> record.modified]
        /\ \A x \in DOMAIN ret.map :
              \E n \in RecNums :
                 /\ read_record(buf[ret.h], n).resource = x
                 /\ read_record(buf[ret.h], n).state # RECORD_FREE

\* leases() returned a STALE and a USED lease while other records are FREE.
C14_Witness ==
    /\ ret.op = "leases"
    /\ ret.res = "ok"
    /\ Cardinality(DOMAIN ret.map) = 2
    /\ \E x, y \in DOMAIN ret.map :
          /\ ret.map[x].state = "STALE"
          /\ ret.map[y].state = "USED"
          /\ ret.map[y].modified = 2
          /\ ret.map[y].offset = LEASE_BASE

\* ---------------------------------------------------------------- C15
\* The ids the calls of SpecFormat are given.
FormatIds == {Uuid("1"), Uuid("2")}

\* One index on a volume whose records become USED, STALE and undecodable
\* and whose metadata another program writes, and format on it.
NextFormat ==
    \/ Open(1)
    \/ Close(1)
    \/ Return
    \/ \E x \in FormatIds : Add(1, x, 1)
    \/ Format(1, MaxTime)
    \/ WriteOk
    \/ SyncOk
    \/ \E n \in RecNums : ForceStale(n)
    \/ \E n \in {0, 1, MAX_RECORDS - 1} : Corrupt(n)
    \/ \E i \in {1, MetaBlocks} : SetMeta(i)

SpecFormat == Init /\ [][NextFormat]_vars

\* C15: when format has returned, every record is the FREE placeholder
\* record of the call's time in the buffer, storage holds the same table,
\* lookup of every lease id raises NoSuchLease, and the metadata blocks on
\* the device are the ones the handle read when it was opened.
C15_Format ==
    (ret.op = "format" /\ ret.res = "ok") =>
        /\ \A n \in RecNums :
              RecordBytes(buf[ret.h], n)
                 = bytes(Record(BLANK_UUID, RECORD_FREE, ret.modified))
        /\ storage = buf[ret.h]
        /\ durable = storage
        /\ \A x \in LeaseIds :
              LookupResult(ret.h, buf[ret.h], x).res = "NoSuchLease"
        /\ meta.dev = meta.buf[ret.h]

\* format has written every block of a table that held a USED, a STALE and
\* an undecodable record when it began, on a volume whose metadata was
\* written after the handle was opened.
C15_Witness ==
    /\ call.op = "format"
    /\ call.step = "sync"
    /\ \E n \in RecNums : ~read_record(call.before, n).valid
    /\ \E n \in RecNums : /\ read_record(call.before, n).valid
                          /\ read_record(call.before, n).state = RECORD_STALE
    /\ \E n \in RecNums : /\ read_record(call.before, n).valid
                          /\ read_record(call.before, n).state = RECORD_USED
    /\ \A n \in RecNums : /\ read_record(storage, n).valid
                          /\ read_record(storage, n).state = RECORD_FREE
    /\ meta.med # meta.dev

\* ---------------------------------------------------------------- C16
\* The ids the calls of SpecReader are given.
ReaderIds == {Uuid("1"), Uuid("2")}

\* The writer's index and a second index that is opened, read with lookup
\* and leases, and closed at any time; no I/O error, no crash.
NextReader ==
    \/ \E h \in Handles : Open(h)
    \/ \E h \in Handles : Close(h)
    \/ Return
    \/ \E x \in ReaderIds : Lookup(2, x)
    \/ Leases(2)
    \/ \E x \in ReaderIds : Add(1, x, 1)
    \/ \E x \in ReaderIds : Remove(1, x, 1)
    \/ WriteOk
    \/ SyncOk

SpecReader == Init /\ [][NextReader]_vars

\* The ids of the USED records of b.
UsedIds(b) ==
    {read_record(b, n).resource :
        n \in {m \in RecNums : read_record(b, m).state = RECORD_USED}}

\* C16: the buffer of a handle is storage as it was when the handle was
\* opened, changed only by the handle's own add, remove and format; lookup
\* and leases of the handle answer from that buffer, whatever storage holds
\* by then.
C16_NoReread ==
    [][/\ \A h \in Handles :
            /\ (~IsOpen(h) /\ buf'[h] # << >>) => buf'[h] = storage
            /\ (IsOpen(h) /\ buf'[h] # << >> /\ buf'[h] # buf[h])
                  => (call = NoCall /\ call'.h = h)
       /\ \A x \in ReaderIds :
            LookupCalled(2, x) =>
               /\ ret'.res = "ok" <=> x \in UsedIds(buf[2])
               /\ ret'.res = "NoSuchLease" <=> x \notin UsedIds(buf[2])
       /\ (ret = NoRet /\ ret'.op = "leases" /\ ret'.h = 2)
             => DOMAIN ret'.map = UsedIds(buf[2])]_vars

\* lookup on the second handle raised NoSuchLease for a lease that the
\* writer added, and that is on storage, after the handle was opened.
C16_Witness ==
    /\ ret.op = "lookup"
    /\ ret.h = 2
    /\ ret.res = "NoSuchLease"
    /\ call = NoCall
    /\ ret.id \in UsedIds(durable)
    /\ ret.id \in live

\* ---------------------------------------------------------------- C17
\* The lengths of the backing file: from empty to one block more than the
\* index region, in whole blocks.
FileSizes == {k * BLOCK_SIZE : k \in 0..(MetaBlocks + NBlocks + 1)}

\* A formatted volume, or a file that is too short to hold it.
InitFile ==
    /\ storage = FormatBuf([i \in 1..TableLen |-> "0"], 0, 0)
    /\ durable = storage
    /\ buf = [h \in Handles |-> << >>]
    /\ call = NoCall
    /\ ret = NoRet
    /\ meta = [dev |-> BlankMeta, med |-> BlankMeta,
               buf |-> [h \in Handles |-> << >>]]
    /\ live = {}
    /\ closed = {}
    /\ size \in FileSizes
    /\ rd = NoRead
    /\ codec = NoCodec

\* Indexes are constructed, one at a time, on a file of any length, and
\* closed.
NextOpen ==
    \/ \E h \in Handles : OpenStart(h)
    \/ LoopTest
    \/ ReadStep
    \/ ReadFail
    \/ Return
    \/ \E h \in Handles : Close(h)

\* The process that constructs an Index keeps running: its loop takes its
\* next step.
SpecOpen ==
    InitFile /\ [][NextOpen]_vars /\ WF_vars(LoopTest) /\ WF_vars(ReadStep)

\* C17: the construction of an Index comes to an end, with the Index or with
\* an error.
C17_OpenTerminates == (rd # NoRead) ~> (rd = NoRead)

\* ---------------------------------------------------------------- C18
\* The calls made on a closed Index.
ClosedOps == {"lookup", "add", "remove", "format", "leases"}

\* One index that adds and removes leases, is closed and called after that,
\* and is replaced by a new one.
NextClosed ==
    \/ Open(1)
    \/ Close(1)
    \/ Return
    \/ \E x \in LeasesIds : Add(1, x, 1)
    \/ \E x \in LeasesIds : Remove(1, x, 1)
    \/ WriteOk
    \/ SyncOk
    \/ \E op \in ClosedOps, x \in LeasesIds : CallClosed(1, op, x)

SpecClosed == Init /\ [][NextClosed]_vars

SampleUuid ==
    <<"3", "4", "e", "5", "a", "2", "a", "8", "-", "1", "a", "4", "d",
    "-", "4", "5", "a", "0", "-", "a", "4", "b", "2", "-", "c", "8", "8",
    "1", "5", "7", "f", "7", "a", "5", "a", "9">>

\* The ids of the records given to the codec: the placeholder, the lease
\* ids, and ids with letters.
CodecIds == {BLANK_UUID, SampleUuid, Uuid("f")} \cup LeaseIds

\* The timestamps of the records given to the codec: 0, the first and the
\* last value of one digit, the first of two, the time in the module's
\* description, the last value of 9 digits, the first of 10, and the largest
\* value of 10 digits that the model's integers hold.
CodecTimes ==
    {0, 1, 9, 10, 1479914506, 999999999, 1000000000, 2147483647}

\* A caller holds a well-formed record.
InitCodec ==
    /\ storage = FormatBuf([i \in 1..TableLen |-> "0"], 0, 0)
    /\ durable = storage
    /\ buf = [h \in Handles |-> << >>]
    /\ call = NoCall
    /\ ret = NoRet
    /\ meta = [dev |-> BlankMeta, med |-> BlankMeta,
               buf |-> [h \in Handles |-> << >>]]
    /\ live = {}
    /\ closed = {}
    /\ size = INDEX_SIZE
    /\ rd = NoRead
    /\ codec \in {[pc |-> "new", rec |-> Record(id, state, modified),
                   data |-> << >>, out |-> NoRecord] :
                     id \in CodecIds,
                     state \in {RECORD_USED, RECORD_FREE, RECORD_STALE},
                     modified \in CodecTimes}

\* The record is encoded, and the bytes decoded.
NextCodec ==
    \/ Encode
    \/ Decode

SpecCodec == InitCodec /\ [][NextCodec]_vars

\* C19: Record.frombytes of Record.bytes of a well-formed record is a record
\* of the same id, state and timestamp.
C19_RoundTrip ==
    codec.pc = "decoded" =>
        codec.out = [valid |-> TRUE, resource |-> codec.rec.resource,
                     state |-> codec.rec.state,
                     modified |-> codec.rec.modified]

\* A STALE record with a timestamp of 10 digits went through the codec.
C19_Witness ==
    /\ codec.pc = "decoded"
    /\ codec.out.valid
    /\ codec.out.state = RECORD_STALE
    /\ codec.out.modified = 2147483647
    /\ codec.out.resource = SampleUuid

\* The offsets of the separators in data.
SepOffsets(data) == {i \in 1..Len(data) : data[i] = RECORD_SEP}

\* C20: Record.bytes of a well-formed record is RECORD_SIZE bytes long, ends
\* with a newline, holds three separators, and has only "0" between the
\* third separator and the newline.
C20_EncodedLayout ==
    codec.pc \in {"encoded", "decoded"} =>
        /\ Len(codec.data) = RECORD_SIZE
        /\ codec.data[RECORD_SIZE] = "\n"
        /\ Cardinality(SepOffsets(codec.data)) = 3
        /\ \A i \in 1..(RECORD_SIZE - 1) :
              (\A j \in SepOffsets(codec.data) : j < i) => codec.data[i] = "0"

\* A FREE record of time 0 was encoded: the third separator, then 13 bytes
\* of padding and the newline.
C20_Witness ==
    /\ codec.pc = "encoded"
    /\ codec.rec.modified = 0
    /\ codec.rec.state = RECORD_FREE
    /\ codec.data[RECORD_SIZE - 14] = RECORD_SEP

\* ---------------------------------------------------------- C21, C22
\* The records whose bytes are damaged before they are decoded.
DecodeRecords ==
    {Record(id, state, modified) :
        id \in {BLANK_UUID, SampleUuid},
        state \in {RECORD_USED, RECORD_FREE, RECORD_STALE},
        modified \in {1, 1479914506}}

\* The bytes that replace one byte of a record.
DecodeBytes == {RECORD_SEP, "X", "u", "-", "+", " ", "0", RECORD_TERM}

\* The byte strings given to Record.frombytes: the bytes of a record with one
\* byte replaced, with the last byte cut off, or with one byte more; and the
\* empty string.
DecodeInputs ==
    UNION {{[data EXCEPT ![p] = c] : p \in 1..Len(data), c \in DecodeBytes}
            \cup {SubSeq(data, 1, Len(data) - 1), data \o <<"0">>} :
                data \in {bytes(r) : r \in DecodeRecords}}
        \cup {<< >>}

\* A caller holds bytes read from a damaged volume.
InitDecode ==
    /\ storage = FormatBuf([i \in 1..TableLen |-> "0"], 0, 0)
    /\ durable = storage
    /\ buf = [h \in Handles |-> << >>]
    /\ call = NoCall
    /\ ret = NoRet
    /\ meta = [dev |-> BlankMeta, med |-> BlankMeta,
               buf |-> [h \in Handles |-> << >>]]
    /\ live = {}
    /\ closed = {}
    /\ size = INDEX_SIZE
    /\ rd = NoRead
    /\ codec \in {[pc |-> "encoded", rec |-> NoRecord, data |-> data,
                   out |-> NoRecord] : data \in DecodeInputs}

\* The bytes are decoded.
NextDecode == Decode

SpecDecode == InitDecode /\ [][NextDecode]_vars

\* The fields of data between its separators, all of them.
Fields(data) ==
    LET seps == SepOffsets(data)
        k == Cardinality(seps)
        pos(j) == IF j = 0 THEN 0
                  ELSE IF j = k + 1 THEN Len(data) + 1
                  ELSE CHOOSE i \in seps : Cardinality({m \in seps : m < i}) = j - 1
    IN  [j \in 1..(k + 1) |-> SubSeq(data, pos(j - 1) + 1, pos(j) - 1)]

\* The field is a decimal numeral: digits, with an optional sign before them
\* and optional blanks around.
Numeric(f) ==
    \E a \in 1..Len(f) : \E b \in a..Len(f) :
        /\ \A i \in 1..(a - 1) : f[i] \in Whitespace
        /\ \A i \in (b + 1)..Len(f) : f[i] \in Whitespace
        /\ IsDigit(f[b])
        /\ \A i \in (a + 1)..b : IsDigit(f[i])
        /\ IsDigit(f[a]) \/ (f[a] \in {"-", "+"} /\ a < b)

\* The decoded bytes are RECORD_SIZE long, have four fields and a state byte
\* that is U, F or S.
WellFramed(data) ==
    /\ Len(data) = RECORD_SIZE
    /\ Len(Fields(data)) = 4
    /\ Fields(data)[2] \in {<<RECORD_USED>>, <<RECORD_FREE>>, <<RECORD_STALE>>}

\* C21: Record.frombytes raises InvalidRecord for bytes whose length is not
\* RECORD_SIZE, that do not have exactly four fields between separators,
\* whose state field is not U, F or S, or whose timestamp field is not a
\* number.
C21_DecodeRejects ==
    codec.pc = "decoded" =>
        ((~WellFramed(codec.data) \/ ~Numeric(Fields(codec.data)[3]))
            => codec.out = NoRecord)

\* Bytes of the right length, with four fields and a good state byte, were
\* rejected for their timestamp.
C21_Witness ==
    /\ codec.pc = "decoded"
    /\ codec.out = NoRecord
    /\ WellFramed(codec.data)
    /\ ~Numeric(Fields(codec.data)[3])

\* C22: Record.frombytes raises InvalidRecord when the timestamp field is
\* not a number or is a negative number.
C22_RejectsNegative ==
    (codec.pc = "decoded" /\ WellFramed(codec.data)) =>
        ((~Numeric(Fields(codec.data)[3]) \/ IntOfText(Fields(codec.data)[3]) < 0)
            => codec.out = NoRecord)

\* ---------------------------------------------------------------- C23
\* A lease id of 60 characters: no call validates the id it is given.
LongId == Uuid("9") \o Rep("9", 24)

\* The ids the calls of SpecLong are given.
LongIds == {Uuid("1"), Uuid("2"), Uuid("3"), LongId}

\* One index whose caller passes lease ids of any length.
NextLong ==
    \/ Open(1)
    \/ Return
    \/ \E x \in LongIds : Add(1, x, 1)
    \/ Remove(1, Uuid("1"), 1)
    \/ WriteOk
    \/ SyncOk

SpecLong == Init /\ [][NextLong]_vars

\* C23: the bytes add and remove write into the buffer are RECORD_SIZE long
\* and change the record of the call only: every other record of the buffer
\* keeps its bytes.
C23_EncodeFits ==
    [][(call = NoCall /\ call'.op \in {"add", "remove"}) =>
          /\ Len(bytes(Record(call'.id, RECORD_USED, call'.modified))) = RECORD_SIZE
          /\ \A n \in RecNums \ {call'.recnum} :
                RecordBytes(buf'[call'.h], n) = RecordBytes(buf[call'.h], n)]_vars

\* ---------------------------------------------------------- C24, C25
\* One index on a formatted volume and every call but format: add of every
\* lease id, remove and lookup of one, leases; a record is marked STALE while
\* the index is closed.  No I/O error, no crash.
NextCalls ==
    \/ Open(1)
    \/ Close(1)
    \/ Return
    \/ Lookup(1, Uuid("1"))
    \/ Leases(1)
    \/ \E i \in 1..NumIds : RefineTurn(i) /\ Add(1, Uuid(DigitChar(i)), 1)
    \/ Remove(1, Uuid("1"), 1)
    \/ WriteOk
    \/ SyncOk
    \/ ForceStale(0)

SpecCalls == Init /\ [][NextCalls]_vars

\* C24: when add or remove returns without error, the requests it made to
\* the file are one write, of BLOCK_SIZE bytes at the record's offset rounded
\* down to a multiple of BLOCK_SIZE, and then one sync; the write changes no
\* byte of storage outside that block; lookup and leases make no request and
\* leave storage as it is.
C24_OneBlockWrite ==
    [][/\ (call.op \in {"add", "remove"} /\ ret = NoRet /\ ret'.res = "ok") =>
             \E offset \in {RECORD_BASE + call.recnum * RECORD_SIZE} :
                call.io = <<Request("write", offset - (offset % BLOCK_SIZE),
                                    BLOCK_SIZE),
                            SyncRequest>>
       /\ (call.op \in {"add", "remove"} /\ storage' # storage) =>
             /\ Len(storage') = Len(storage)
             /\ \A i \in 1..Len(storage) :
                   storage'[i] # storage[i] =>
                      /\ RECORD_BASE + i - 1 >= call.io[1].offset
                      /\ RECORD_BASE + i - 1 < call.io[1].offset + BLOCK_SIZE
       /\ (ret = NoRet /\ ret'.op \in {"lookup", "leases"}) =>
             /\ call = NoCall
             /\ UNCHANGED <<storage, durable, meta, call>>]_vars

\* remove has written the block of the last record and returned.
C24_Witness ==
    /\ ret.op = "remove"
    /\ ret.res = "ok"
    /\ ret.recnum = MAX_RECORDS - 1
    /\ read_record(storage, MAX_RECORDS - 1).state = RECORD_FREE

\* The errors of the lease index itself.
DomainErrors == {"NoSuchLease", "LeaseExists", "StaleLease", "NoSpace"}

\* C25: a call that raises NoSuchLease, LeaseExists, StaleLease or NoSpace
\* leaves every buffer, storage, the stable medium and the metadata as they
\* were, and makes no request to the file.
C25_ErrorNoChange ==
    [][(ret = NoRet /\ ret'.res \in DomainErrors) =>
          /\ call = NoCall
          /\ UNCHANGED <<buf, storage, durable, meta, call, live>>]_vars

\* add raised NoSpace on an index whose first record is STALE.
C25_Witness ==
    /\ ret.op = "add"
    /\ ret.res = "NoSpace"
    /\ read_record(buf[1], 0).state = RECORD_STALE

\* ------------------------------------------------------ C26, C27, C28
\* One index whose calls reach every record number: add of every lease id,
\* remove of one, format, leases.  No I/O error, no crash.
NextGeometry ==
    \/ Open(1)
    \/ Close(1)
    \/ Return
    \/ Leases(1)
    \/ \E i \in 1..NumIds : RefineTurn(i) /\ Add(1, Uuid(DigitChar(i)), 1)
    \/ Remove(1, Uuid("1"), 1)
    \/ Format(1, 1)
    \/ WriteOk
    \/ SyncOk

SpecGeometry == Init /\ [][NextGeometry]_vars

\* The request begins and ends at a multiple of BLOCK_SIZE.
Aligned(r) == r.offset % BLOCK_SIZE = 0 /\ r.length % BLOCK_SIZE = 0

\* C26: the read of IndexBuffer.__init__ is INDEX_SIZE bytes at offset 0, the
\* write of add and remove is BLOCK_SIZE bytes at the block of the record,
\* for every record number, and the write of format is INDEX_SIZE bytes at
\* offset 0; the offset and the length of each of them are multiples of
\* BLOCK_SIZE.
C26_Aligned ==
    /\ LoadRequest = Request("read", 0, INDEX_SIZE)
    /\ Aligned(LoadRequest)
    /\ \A n \in RecNums : Aligned(Request("write", block_start(n), BLOCK_SIZE))
    /\ \A i \in 1..Len(call.io) :
          call.io[i].op # "sync" => (call.io[i].offset >= 0 /\ Aligned(call.io[i]))
    /\ call.op \in {"add", "remove"} =>
          /\ call.io[1].op = "write"
          /\ call.io[1].length = BLOCK_SIZE
          /\ call.io[1].offset <= RECORD_BASE + call.recnum * RECORD_SIZE
          /\ call.io[1].offset + BLOCK_SIZE > RECORD_BASE + call.recnum * RECORD_SIZE
    /\ call.op = "format" => call.io[1] = Request("write", 0, INDEX_SIZE)

\* add is writing the block of the last record, which does not begin at a
\* multiple of BLOCK_SIZE.
C26_Witness ==
    /\ call.op = "add"
    /\ call.step = "write"
    /\ call.recnum = MAX_RECORDS - 1
    /\ _record_offset(call.recnum) % BLOCK_SIZE # 0

\* C27: for every record number, the RECORD_SIZE bytes of the record are
\* inside the block dump_record writes for it, and that block is inside the
\* first INDEX_SIZE bytes of the file; so when the one write of add or
\* remove is done, storage holds all the bytes of the record.
C27_NoStraddle ==
    /\ \A n \in RecNums :
          \E o \in {_record_offset(n)}, b \in {block_start(n)} :
             /\ b <= o
             /\ o + RECORD_SIZE <= b + BLOCK_SIZE
             /\ 0 <= b
             /\ b + BLOCK_SIZE <= INDEX_SIZE
    /\ (call.op \in {"add", "remove"} /\ call.step = "sync") =>
          RecordBytes(storage, call.recnum) = RecordBytes(buf[call.h], call.recnum)

\* remove has written the block of the last record.
C27_Witness ==
    /\ call.op = "remove"
    /\ call.step = "sync"
    /\ call.recnum = MAX_RECORDS - 1
    /\ read_record(storage, call.recnum).state = RECORD_FREE

\* The lease areas at offsets a and b do not overlap.
Disjoint(a, b) == a + LEASE_SIZE <= b \/ b + LEASE_SIZE <= a

\* C28: the lease areas of two record numbers do not overlap, every lease
\* area begins at or after LEASE_BASE, and LEASE_BASE is at or after the end
\* of the index; so do the offsets that leases() reports for two lease ids.
C28_LeaseAreas ==
    /\ INDEX_SIZE <= LEASE_BASE
    /\ \A n \in RecNums : _lease_offset(n) >= LEASE_BASE
    /\ \A n, m \in RecNums :
          n # m => Disjoint(_lease_offset(n), _lease_offset(m))
    /\ (ret.op = "leases" /\ ret.res = "ok") =>
          /\ \A x \in DOMAIN ret.map : ret.map[x].offset >= LEASE_BASE
          /\ \A x, y \in DOMAIN ret.map :
                x # y => Disjoint(ret.map[x].offset, ret.map[y].offset)

\* leases() returned a lease for every record.
C28_Witness ==
    /\ ret.op = "leases"
    /\ ret.res = "ok"
    /\ Cardinality(DOMAIN ret.map) = MAX_RECORDS

\* ---------------------------------------------------------------- C29
\* The ids the calls of SpecCorrupt are given.
CorruptIds == {Uuid("1"), Uuid("2")}

\* One index on a volume whose records are damaged while it is closed, and
\* every call but format.  No I/O error, no crash.
NextCorrupt ==
    \/ Open(1)
    \/ Close(1)
    \/ Return
    \/ \E x \in CorruptIds : Lookup(1, x)
    \/ Leases(1)
    \/ \E x \in CorruptIds : Add(1, x, 1)
    \/ \E x \in CorruptIds : Remove(1, x, 1)
    \/ WriteOk
    \/ SyncOk
    \/ \E n \in {0, 1} : Corrupt(n)

SpecCorrupt == Init /\ [][NextCorrupt]_vars

\* Record n of b is there and Record.frombytes cannot decode it.
Undecodable(b, n) == n # -1 /\ ~read_record(b, n).valid

\* C29: lookup, add and remove raise InvalidRecord and leave the buffer as it
\* is when the record they find for the lease id cannot be decoded, and so
\* does add when the free record it finds cannot be decoded; leases raises
\* InvalidRecord when any record cannot be decoded.
C29_CorruptionPropagates ==
    [][/\ \A x \in CorruptIds :
             /\ ((LookupCalled(1, x) \/ AddCalled(1, x) \/ RemoveCalled(1, x))
                    /\ Undecodable(buf[1], find_record(buf[1], x)))
                   => (ret'.res = "InvalidRecord" /\ UNCHANGED <<buf, storage, call>>)
             /\ (AddCalled(1, x)
                    /\ find_record(buf[1], x) = -1
                    /\ Undecodable(buf[1], find_record(buf[1], BLANK_UUID)))
                   => (ret'.res = "InvalidRecord" /\ UNCHANGED <<buf, storage, call>>)
       /\ (ret = NoRet /\ ret'.op = "leases"
              /\ \E n \in RecNums : Undecodable(buf[1], n))
             => ret'.res = "InvalidRecord"]_vars

\* ---------------------------------------------------------------- C30
\* C30: when the system crashes inside add or remove, after the call changed
\* its record in the buffer and before its flush was done, the record is
\* STALE on storage, where the next Index reads it.
C30_InterruptedStale ==
    [][CrashInCall =>
          \E record \in {read_record(storage', call.recnum)} :
             record.valid /\ record.state = RECORD_STALE]_vars

\* ---------------------------------------------------------------- C31
\* The ids the calls of SpecReset are given: two leases of one block.
ResetIds == {Uuid("1"), Uuid("2")}

\* The writer's index is filled and formatted, with I/O errors and crashes.
NextReset ==
    \/ Open(1)
    \/ Return
    \/ \E x \in ResetIds : Add(1, x, 1)
    \/ Format(1, 1)
    \/ WriteOk
    \/ WriteFail
    \/ SyncOk
    \/ SyncFail
    \/ Crash

SpecReset == Init /\ [][NextReset]_vars

\* The step is a crash while format is in progress.
CrashInFormat ==
    call.op = "format" /\ call' = NoCall /\ ret' = NoRet

\* The bytes of block k of the record table b.
BlockBytes(b, k) == SubSeq(b, k * BLOCK_SIZE + 1, (k + 1) * BLOCK_SIZE)

\* Every record of block k of b is a FREE record.
AllFree(b, k) ==
    \A n \in RecNums :
       block_start(n) = RECORD_BASE + k * BLOCK_SIZE
          => /\ read_record(b, n).valid
             /\ read_record(b, n).state = RECORD_FREE
             /\ read_record(b, n).resource = BLANK_UUID

\* C31: when the system crashes inside format, every block of the record
\* table on storage is, byte for byte, what it was on storage when format
\* began, or holds FREE records only, and the metadata blocks are what they
\* were (what the handle read: nothing else writes them here).
C31_FormatCrashMix ==
    [][CrashInFormat =>
          /\ \A k \in 0..(NBlocks - 1) :
                \/ BlockBytes(storage', k) = BlockBytes(call.before, k)
                \/ AllFree(storage', k)
          /\ meta'.dev = meta.buf[call.h]]_vars

\* ---------------------------------------------------------------- C32
\* C32: on a file that holds the whole index region, so that every read
\* returns at least one byte, every read of DirectFile.readinto either
\* raises the device's I/O error or moves the position forward inside the
\* buffer, and the loop ends only with the position at len(buffer).
C32_TransfersComplete ==
    [][size >= LoadRequest.offset + LoadRequest.length =>
          /\ (rd.pc = "read" /\ rd' # rd) =>
                \/ ret'.res = "OSError"
                \/ /\ rd'.pc = "test"
                   /\ rd'.pos > rd.pos
                   /\ rd'.pos <= LoadRequest.length
          /\ (rd.pc = "test" /\ rd' = NoRead) =>
                rd.pos = LoadRequest.length]_vars

\* ---------------------------------------------------------------- C33
\* The ids the calls of SpecErrors are given.
ErrorIds == {Uuid("1"), Uuid("2")}

\* One index, opened once, with I/O errors and without crash.
NextErrors ==
    \/ Open(1)
    \/ Return
    \/ \E x \in ErrorIds : Add(1, x, 1)
    \/ Remove(1, Uuid("1"), 0)
    \/ WriteOk
    \/ WriteFail
    \/ SyncOk
    \/ SyncFail

SpecErrors == Init /\ [][NextErrors]_vars

\* No two records of b that are not FREE hold the same lease id.
UniqueIds(b) ==
    \A n, m \in RecNums :
       (/\ n # m
        /\ read_record(b, n).valid
        /\ read_record(b, m).valid
        /\ read_record(b, n).state # RECORD_FREE
        /\ read_record(b, m).state # RECORD_FREE)
          => read_record(b, n).resource # read_record(b, m).resource

\* C33: after any calls of add and remove through one handle, failed ones
\* included, no two records of the handle's record table that are not FREE
\* hold the same lease id.
C33_UniqueIds == IsOpen(1) => UniqueIds(buf[1])

\* add of an id has just been refused with LeaseExists while another lease
\* is in the table.
C33_Witness ==
    /\ ret.op = "add"
    /\ ret.res = "LeaseExists"
    /\ Cardinality({n \in RecNums :
                      read_record(buf[1], n).state = RECORD_USED}) = 2

\* ---------------------------------------------------------------- C34
\* An id a caller can pass: the placeholder id followed by the text of the
\* state and time fields of a USED record and by padding, 64 characters.
ForgedId ==
    BLANK_UUID \o <<RECORD_SEP, RECORD_USED, RECORD_SEP>> \o Format010d(1)
               \o <<RECORD_SEP>> \o Rep("0", 14)

\* One index on a formatted volume: add and remove are called with lease
\* ids, enough of them to fill the table, with the placeholder id and with
\* the forged id; no I/O error, no crash.
NextPlaceholder ==
    \/ Open(1)
    \/ Return
    \/ \E i \in 1..NumIds : RefineTurn(i) /\ Add(1, Uuid(DigitChar(i)), 1)
    \/ Add(1, BLANK_UUID, 1)
    \/ Add(1, ForgedId, 1)
    \/ Remove(1, Uuid("1"), 1)
    \/ Remove(1, BLANK_UUID, 1)
    \/ WriteOk
    \/ SyncOk

SpecPlaceholder == Init /\ [][NextPlaceholder]_vars

\* Every record of b that decodes is FREE exactly when its lease id is the
\* placeholder.
StateMatchesId(b) ==
    \A n \in RecNums :
       \E record \in {read_record(b, n)} :
          record.valid =>
             /\ (record.state = RECORD_FREE) <=> (record.resource = BLANK_UUID)
             /\ ~(record.state = RECORD_USED /\ record.resource = BLANK_UUID)

\* C34: after any calls of add and remove, with any ids, every record in
\* the handle's buffer and on storage is FREE if and only if its lease id is
\* the placeholder id, and no USED record holds the placeholder id.
C34_StateMatchesId ==
    /\ StateMatchesId(storage)
    /\ IsOpen(1) => StateMatchesId(buf[1])

\* ---------------------------------------------------------------- C35
\* C35: when a call on the one open Index has returned, with its result or
\* with any error, the handle's buffer is byte for byte what is on storage:
\* the record table and the metadata blocks.
C35_BufferIsStorage ==
    (ret # NoRet /\ IsOpen(1)) =>
       /\ buf[1] = storage
       /\ meta.buf[1] = meta.dev

\* ---------------------------------------------------------------- C36
\* C36: when add(x) has raised an I/O error, lookup(x) on the same handle
\* raises NoSuchLease.
C36_FailedAddUnseen ==
    (ret.op = "add" /\ ret.res = "OSError") =>
       LookupResult(ret.h, buf[ret.h], ret.id).res = "NoSuchLease"

\* ---------------------------------------------------------------- C37
\* The last group of a lease id: a proper suffix of it.
SuffixId == Rep("1", 12)

\* The text of the state field of a USED record.
StateId == <<RECORD_USED>>

\* The ids the calls of SpecMatch are given: a lease id, a proper suffix of
\* it and the text of another field.
MatchIds == {Uuid("1"), SuffixId, StateId}

\* One index whose caller passes any string as a lease id; no I/O error, no
\* crash.
NextMatch ==
    \/ Open(1)
    \/ Return
    \/ \E x \in MatchIds : Lookup(1, x)
    \/ \E x \in MatchIds : Add(1, x, 1)
    \/ \E x \in MatchIds : Remove(1, x, 1)
    \/ WriteOk
    \/ SyncOk

SpecMatch == Init /\ [][NextMatch]_vars

\* C37: the record that lookup(x) returns, that add(x) reports as existing
\* and that remove(x) frees holds the lease id x.
C37_ExactMatch ==
    [][\A x \in MatchIds :
          /\ (LookupCalled(1, x) /\ ret'.res = "ok")
                => read_record(buf[1], ret'.recnum).resource = x
          /\ (AddCalled(1, x) /\ ret'.res \in {"LeaseExists", "StaleLease"})
                => read_record(buf[1], ret'.recnum).resource = x
          /\ (RemoveCalled(1, x) /\ call'.op = "remove")
                => read_record(buf[1], call'.recnum).resource = x]_vars

\* ---------------------------------------------------------------- C38
\* C38: when lookup returns a LeaseInfo, for a lease id or for the
\* placeholder id, the record whose offset it returns is in state USED.
C38_LookupUsedOnly ==
    (ret.op = "lookup" /\ ret.res = "ok") =>
       read_record(buf[ret.h], ret.recnum).state = RECORD_USED

\* ---------------------------------------------------------------- C39
\* One index on a formatted volume: add of every lease id, remove and lookup
\* of two, format; no I/O error, no crash.
NextStable ==
    \/ Open(1)
    \/ Return
    \/ \E x \in RefineRemoveIds : Lookup(1, x)
    \/ \E i \in 1..NumIds : RefineTurn(i) /\ Add(1, Uuid(DigitChar(i)), 1)
    \/ \E x \in RefineRemoveIds : Remove(1, x, 1)
    \/ Format(1, 0)
    \/ WriteOk
    \/ SyncOk

SpecStable == Init /\ [][NextStable]_vars

\* The lease x is held: its add has returned, and neither remove(x) nor
\* format has been called since.
Held(x) ==
    /\ x \in live
    /\ call.op # "format"
    /\ ~(call.op = "remove" /\ call.id = x)

\* C39: when add(x) returns, lookup(x) on the handle returns the offset add
\* returned; and every step that leaves the lease held, whatever other ids
\* are added or removed, leaves the buffer lookup reads as it was or leaves
\* lookup(x) returning a LeaseInfo with the same offset.
C39_SlotStable ==
    [][/\ (call.op = "add" /\ ret'.res = "ok") =>
             \E found \in {LookupResult(1, buf'[1], call.id)} :
                found.res = "ok" /\ found.offset = ret'.offset
       /\ \A x \in live \cap live' :
             (Held(x) /\ Held(x)') =>
                \/ buf'[1] = buf[1]
                \/ \E found \in {LookupResult(1, buf'[1], x)} :
                      /\ found.res = "ok"
                      /\ found.offset = LookupResult(1, buf[1], x).offset]_vars

\* lookup of a held lease returns the second record after the lease of the
\* first record was removed.
C39_Witness ==
    /\ ret.op = "lookup"
    /\ ret.res = "ok"
    /\ ret.id \in live
    /\ ret.recnum = 1
    /\ read_record(buf[1], 0).state = RECORD_FREE
    /\ read_record(buf[1], 0).modified = 1
    /\ read_record(buf[1], 2).state = RECORD_USED

\* ---------------------------------------------------------------- C40
\* The state and the lease id of every record of b; what matters to
\* allocation.  The time of a record is left out.
Allocation(b) ==
    [n \in RecNums |->
       Only({IF record.valid THEN <<record.state, record.resource>>
             ELSE <<"invalid", << >> >> : record \in {read_record(b, n)}})]

\* C40: add(x) takes the lowest FREE record n, changes the state and id of
\* that record only, and returns its offset; remove(x), which finds x in
\* record n, makes the state and id of record n what they were before the
\* add and changes no other.  So after add(x), remove(x) the state and id of
\* every record are what they were, and the next add(x) takes record n
\* again.
C40_AddRemoveRestores ==
    [][/\ (call = NoCall /\ call'.op = "add") =>
             \E n \in {call'.recnum} :
                \E before \in {Allocation(buf[1])} :
                   /\ before[n] = <<RECORD_FREE, BLANK_UUID>>
                   /\ \A m \in RecNums :
                         before[m] = <<RECORD_FREE, BLANK_UUID>> => n <= m
                   /\ Allocation(buf'[1])
                         = [before EXCEPT ![n] = <<RECORD_USED, call'.id>>]
                   /\ find_record(buf'[1], call'.id) = n
       /\ (call = NoCall /\ call'.op = "remove") =>
             \E n \in {call'.recnum} :
                \E before \in {Allocation(buf[1])} :
                   /\ before[n] = <<RECORD_USED, call'.id>>
                   /\ Allocation(buf'[1])
                         = [before EXCEPT ![n] = <<RECORD_FREE, BLANK_UUID>>]
       /\ (call.op = "add" /\ ret'.res = "ok") =>
             ret'.offset = _lease_offset(call.recnum)]_vars

\* A lease that was removed from the first record is added again and takes
\* the first record again, the second being in use.
C40_Witness ==
    /\ ret.op = "add"
    /\ ret.res = "ok"
    /\ ret.id = Uuid("1")
    /\ ret.recnum = 0
    /\ read_record(buf[1], 0).modified = 1
    /\ read_record(buf[1], 1).state = RECORD_USED
    /\ read_record(buf[1], 1).resource = Uuid("2")

====
